---- MODULE Spec2Model ----
(***************************************************************************)
(* A model of src/basic/nulstr-util.c: the conversions between a nulstr    *)
(* (strings laid back to back in one buffer, each closed by a NUL byte)    *)
(* and a strv (a NULL-terminated array of owned strings).                  *)
(*                                                                         *)
(* Every function is executed step by step: one action per statement or    *)
(* loop iteration, with the program counter in pc.  Buffer offsets are the *)
(* 0-based offsets of the C code; the byte at offset k of a buffer b is    *)
(* b.bytes[k+1].  The heap is the sequence of the blocks allocated by the  *)
(* running call, each with the number of times it was freed.  Every        *)
(* allocation may fail.                                                    *)
(***************************************************************************)
EXTENDS Integers, Sequences, FiniteSets, TLC

VARIABLES
    pc,        \* position in the running function, or how the last call ended
    s,         \* parameter s of strv_parse_nulstr/strv_split_nulstr, nulstr of nulstr_get
    l,         \* parameter l of strv_parse_nulstr
    needle,    \* parameter needle of nulstr_get
    make_l,    \* parameter l of strv_make_nulstr
    chained,   \* TRUE when s (and l) are the output of the last strv_make_nulstr(make_l)
    c, i, p, v,       \* locals of strv_parse_nulstr
    ns_i,             \* the NULSTR_FOREACH iterator i (an offset into s)
    split_l,          \* local l of strv_split_nulstr
    m, n, sv_i,       \* locals of strv_make_nulstr; sv_i is the STRV_FOREACH position
    retv,             \* vector returned by strv_parse_nulstr/strv_split_nulstr
    r,                \* return value of strv_make_nulstr
    ret, ret_size,    \* the out parameters of strv_make_nulstr
    found,            \* return value of nulstr_get
    heap,             \* blocks allocated by the running call
    rd,               \* offsets of s read by the running call
    oom,              \* an allocation of the running call has failed
    ub                \* the running call read or wrote outside what it may touch

inputs == <<s, l, needle, make_l, chained>>
parseL == <<c, i, p, v>>
splitL == <<ns_i, split_l>>
makeL  == <<m, n, sv_i>>
outs   == <<retv, r, found>>
outp   == <<ret, ret_size>>
env    == <<heap, rd, oom, ub>>
vars   == <<pc, inputs, parseL, splitL, makeL, outs, outp, env>>

----------------------------------------------------------------------------
(* Bounds of the model *)

MaxLen    == 5    \* longest byte buffer handed to a parser, largest size of a made nulstr
MaxNeedle == 2    \* longest needle
MaxChar   == 2    \* non-NUL byte values are 1..MaxChar
MaxSlack  == 1    \* most bytes an allocation holds beyond the bytes asked for

ENOMEM == 12

Uninit == 0 - 1   \* content of a byte that was allocated and never written

Byte == 0..MaxChar
Char == 1..MaxChar

SeqsUpTo(S, k) == UNION {[1..j -> S] : j \in 0..k}

Buffers == SeqsUpTo(Byte, MaxLen)
Needles == SeqsUpTo(Char, MaxNeedle)

(* The vectors of strings whose nulstr (each string and its NUL) has at most k bytes *)
RECURSIVE VectorsOfSize(_)
VectorsOfSize(k) ==
    {<<>>} \cup UNION {{<<x>> \o w : w \in VectorsOfSize(k - Len(x) - 1)} :
                          x \in SeqsUpTo(Char, k - 1)}

Vectors == VectorsOfSize(MaxLen)

Min(S) == CHOOSE x \in S : \A y \in S : x <= y

----------------------------------------------------------------------------
(* Pointers.  A NULL pointer has null = TRUE; blk is the heap block. *)

NullPtr == [null |-> TRUE, blk |-> 0, str |-> <<>>]                 \* char*
StrPtr(b, x) == [null |-> FALSE, blk |-> b, str |-> x]
NullVec == [null |-> TRUE, blk |-> 0, items |-> <<>>]               \* char**
VecPtr(b, x) == [null |-> FALSE, blk |-> b, items |-> x]
NullBuf == [null |-> TRUE, blk |-> 0, bytes |-> <<>>]               \* char* to bytes
BufPtr(b, x) == [null |-> FALSE, blk |-> b, bytes |-> x]
NullRef == [null |-> TRUE, off |-> 0]                               \* const char* into s
Ref(k) == [null |-> FALSE, off |-> k]
NullStrv == [null |-> TRUE, items |-> <<>>]                         \* caller's char * const *
Strv(x) == [null |-> FALSE, items |-> x]

(* Heap *)
Alloc(h, kind) == Append(h, [kind |-> kind, frees |-> 0])
NewBlk(h) == Len(h) + 1
FreeAll(h, B) == [b \in DOMAIN h |-> IF b \in B THEN [h[b] EXCEPT !.frees = @ + 1] ELSE h[b]]

(* new0(t, n): n zeroed slots *)
new0(k) == [j \in 1..k |-> NullPtr]

(* Number of strings before the first NULL slot *)
RECURSIVE strv_length(_)
strv_length(items) ==
    IF items = <<>> \/ Head(items).null THEN 0 ELSE 1 + strv_length(Tail(items))

(* strv_free(): the strings before the first NULL slot, then the array *)
strv_free(h, vec) ==
    IF vec.null THEN h
    ELSE FreeAll(h, {vec.items[j].blk : j \in 1..strv_length(vec.items)} \cup {vec.blk})

(* The strings of a vector, as the caller reads them *)
StrvOf(vec) == [j \in 1..strv_length(vec.items) |-> vec.items[j].str]

(* A byte of a buffer may be read when it is inside it and was written *)
ReadOK(buf, k) == /\ ~buf.null
                  /\ k >= 0 /\ k < Len(buf.bytes)
                  /\ buf.bytes[k + 1] # Uninit
AllReadOK(buf, K) == \A k \in K : ReadOK(buf, k)

----------------------------------------------------------------------------
(* How a call ends *)

(* A call starts with its locals unset, an empty record of its allocations *)
(* and reads, and no return value yet                                      *)
CallReset ==
    /\ c' = 0 /\ i' = 0 /\ p' = 0 /\ v' = NullVec
    /\ ns_i' = 0 /\ split_l' = NullVec
    /\ m' = NullBuf /\ n' = 0 /\ sv_i' = 0
    /\ retv' = NullVec /\ r' = 0 /\ found' = NullRef
    /\ heap' = <<>> /\ rd' = {} /\ oom' = FALSE /\ ub' = FALSE

(* The caller's out parameters before strv_make_nulstr() has written them *)
UnsetRet  == [set |-> FALSE, m |-> NullBuf]
UnsetSize == [set |-> FALSE, size |-> 0]

(* A read or write outside the memory the call may touch *)
Fault ==
    /\ pc' = "fault" /\ ub' = TRUE
    /\ UNCHANGED <<inputs, parseL, splitL, makeL, outs, outp, heap, rd, oom>>

----------------------------------------------------------------------------
(* strv_parse_nulstr(s, l) *)

(* The caller passes l bytes at s; s may be NULL only when l is 0 (line 19) *)
ParseCall ==
    /\ pc = "idle"
    /\ \E b \in Buffers, len \in 0..MaxLen, isnull \in BOOLEAN :
          /\ len <= Len(b)
          /\ isnull => b = <<>>
          /\ s' = IF isnull THEN NullBuf ELSE BufPtr(0, b)
          /\ l' = len
    /\ needle' = <<>> /\ make_l' = NullStrv /\ chained' = FALSE
    /\ UNCHANGED outp
    /\ CallReset
    /\ pc' = "parse_entry"

(* lines 21-22 *)
ParseEntry ==
    /\ pc = "parse_entry"
    /\ IF l <= 0
       THEN /\ \E ok \in BOOLEAN :
                 /\ heap' = IF ok THEN Alloc(heap, "vec") ELSE heap
                 /\ retv' = IF ok THEN VecPtr(NewBlk(heap), new0(1)) ELSE NullVec
                 /\ oom' = ~ok
            /\ pc' = "parse_done"
            /\ UNCHANGED <<inputs, parseL, splitL, makeL, r, found, outp, rd, ub>>
       ELSE /\ pc' = "parse_count"
            /\ p' = 0
            /\ UNCHANGED <<inputs, c, i, v, splitL, makeL, outs, outp, env>>

(* lines 24-26, one byte of the first pass *)
ParseCount ==
    /\ pc = "parse_count"
    /\ IF p < l
       THEN IF ReadOK(s, p)
            THEN /\ c' = IF s.bytes[p + 1] = 0 THEN c + 1 ELSE c
                 /\ p' = p + 1
                 /\ rd' = rd \cup {p}
                 /\ UNCHANGED <<pc, inputs, i, v, splitL, makeL, outs, outp, heap, oom, ub>>
            ELSE Fault
       ELSE /\ pc' = "parse_tail"
            /\ UNCHANGED <<inputs, parseL, splitL, makeL, outs, outp, env>>

(* line 28: the bytes after the last NUL are one more string *)
TailNoNul(b, len) == 0
TailCount(b, len) == IF b[len] # 0 THEN 1 ELSE 0

(* lines 28-29 *)
ParseTail ==
    /\ pc = "parse_tail"
    /\ IF ReadOK(s, l - 1)
       THEN /\ c' = c + TailCount(s.bytes, l)
            /\ rd' = rd \cup {l - 1}
            /\ pc' = "parse_alloc"
            /\ UNCHANGED <<inputs, i, p, v, splitL, makeL, outs, outp, heap, oom, ub>>
       ELSE Fault

(* lines 31-33 *)
ParseAlloc ==
    /\ pc = "parse_alloc"
    /\ \E ok \in BOOLEAN :
          IF ok
          THEN /\ heap' = Alloc(heap, "vec")
               /\ v' = VecPtr(NewBlk(heap), new0(c + 1))
               /\ p' = 0
               /\ pc' = "parse_split"
               /\ UNCHANGED <<inputs, c, i, splitL, makeL, outs, outp, rd, oom, ub>>
          ELSE /\ oom' = TRUE
               /\ retv' = NullVec
               /\ pc' = "parse_done"
               /\ UNCHANGED <<inputs, parseL, splitL, makeL, r, found, outp, heap, rd, ub>>

(* memchr(p, 0, cnt): offset of the first NUL among cnt bytes from p, if any *)
memchr0(b, from, cnt) ==
    LET Z == {k \in from..(from + cnt - 1) : k < Len(b) /\ b[k + 1] = 0}
    IN  IF Z = {} THEN NullRef ELSE Ref(Min(Z))

(* line 40: the length of the string that starts at p *)
SegLen(e, from, len) == IF ~e.null THEN e.off - from ELSE len - from

(* line 49 *)
SkipTwo(e) == e.off + 2
NextP(e) == e.off + 1

(* _cleanup_strv_free_ of line 16, run when the function returns *)
NoCleanup(h, vec) == h
ParseCleanup(h, vec) == strv_free(h, vec)

(* lines 35-50, one iteration of the second pass *)
ParseSplit ==
    /\ pc = "parse_split"
    /\ IF p < l
       THEN LET e   == memchr0(s.bytes, p, l - p)
                len == SegLen(e, p, l)
                R   == IF e.null THEN p..(l - 1) ELSE p..e.off
            IN  IF AllReadOK(s, R) /\ i < Len(v.items)
                THEN \E ok \in BOOLEAN :
                        IF ok
                        THEN /\ heap' = Alloc(heap, "str")
                             /\ v' = [v EXCEPT !.items[i + 1] =
                                        StrPtr(NewBlk(heap), SubSeq(s.bytes, p + 1, p + len))]
                             /\ i' = i + 1
                             /\ rd' = rd \cup R
                             /\ IF e.null
                                THEN pc' = "parse_ret" /\ p' = p
                                ELSE pc' = pc /\ p' = NextP(e)
                             /\ UNCHANGED <<inputs, c, splitL, makeL, outs, outp, oom, ub>>
                        ELSE /\ oom' = TRUE
                             /\ rd' = rd \cup R
                             /\ heap' = ParseCleanup(heap, v)
                             /\ retv' = NullVec
                             /\ pc' = "parse_done"
                             /\ UNCHANGED <<inputs, parseL, splitL, makeL, r, found, outp, ub>>
                ELSE Fault
       ELSE /\ pc' = "parse_ret"
            /\ UNCHANGED <<inputs, parseL, splitL, makeL, outs, outp, env>>

(* lines 52-54 *)
ParseRet ==
    /\ pc = "parse_ret"
    /\ IF i = c
       THEN /\ retv' = v
            /\ v' = NullVec
            /\ pc' = "parse_done"
            /\ UNCHANGED <<inputs, c, i, p, splitL, makeL, r, found, outp, env>>
       ELSE /\ pc' = "abort"
            /\ UNCHANGED <<inputs, parseL, splitL, makeL, outs, outp, env>>

----------------------------------------------------------------------------
(* NULSTR_FOREACH(i, s): for (i = s; i && *i; i = strchr(i, 0) + 1) *)

(* strchr(i, 0): offset of the first byte from `from` on that is NUL; the   *)
(* scan also ends at the first byte that may not be read                   *)
strchr0(buf, from) ==
    Min({k \in from..Len(buf.bytes) : ~ReadOK(buf, k) \/ buf.bytes[k + 1] = 0})

(* The loop condition i && *i fails on the byte at offset k: an empty string *)
NulstrDone(buf, k) == buf.bytes[k + 1] = 0

(* The string that starts at offset from and ends before the NUL at e *)
StrAt(buf, from, e) == SubSeq(buf.bytes, from + 1, e)

(* An unbounded nulstr of the caller: any bytes, closed by an empty string *)
Nulstrs == {b \o <<0, 0>> : b \in Buffers}

----------------------------------------------------------------------------
(* strv_split_nulstr(s) *)

SplitCall ==
    /\ pc = "idle"
    /\ \E b \in Nulstrs, isnull \in BOOLEAN :
          s' = IF isnull THEN NullBuf ELSE BufPtr(0, b)
    /\ l' = 0 /\ needle' = <<>> /\ make_l' = NullStrv /\ chained' = FALSE
    /\ UNCHANGED outp
    /\ CallReset
    /\ pc' = "split_loop"

(* strv_extend(&l, value) that succeeds: a copy of value in block b is     *)
(* appended and the array, allocated when l was NULL, stays NULL-terminated *)
strv_extend(vec, vb, b, value) ==
    IF vec.null
    THEN VecPtr(vb, <<StrPtr(b, value), NullPtr>>)
    ELSE [vec EXCEPT !.items =
            SubSeq(@, 1, Len(@) - 1) \o <<StrPtr(b, value), NullPtr>>]

(* _cleanup_strv_free_ of line 58, run when the function returns *)
SplitCleanup(h, vec) == strv_free(h, vec)

(* lines 65-67, one iteration of NULSTR_FOREACH *)
SplitLoop ==
    /\ pc = "split_loop"
    /\ IF s.null
       THEN /\ pc' = "split_ret"
            /\ UNCHANGED <<inputs, parseL, splitL, makeL, outs, outp, env>>
       ELSE IF ~ReadOK(s, ns_i)
       THEN Fault
       ELSE IF NulstrDone(s, ns_i)
       THEN /\ pc' = "split_ret"
            /\ rd' = rd \cup {ns_i}
            /\ UNCHANGED <<inputs, parseL, splitL, makeL, outs, outp, heap, oom, ub>>
       ELSE LET e == strchr0(s, ns_i)
            IN  IF ~ReadOK(s, e)
                THEN Fault
                ELSE \E res \in {"ok", "nodup", "nogrow"} :
                        /\ rd' = rd \cup (ns_i..e)
                        /\ IF res = "ok"
                           THEN /\ heap' = IF split_l.null
                                           THEN Alloc(Alloc(heap, "str"), "vec")
                                           ELSE Alloc(heap, "str")
                                /\ split_l' = strv_extend(split_l, NewBlk(heap) + 1,
                                                          NewBlk(heap), StrAt(s, ns_i, e))
                                /\ ns_i' = e + 1
                                /\ UNCHANGED <<pc, retv, oom>>
                           ELSE /\ oom' = TRUE
                                /\ heap' = SplitCleanup(
                                             IF res = "nogrow"
                                             THEN FreeAll(Alloc(heap, "str"), {NewBlk(heap)})
                                             ELSE heap, split_l)
                                /\ retv' = NullVec
                                /\ pc' = "split_done"
                                /\ UNCHANGED <<ns_i, split_l>>
                        /\ UNCHANGED <<inputs, parseL, makeL, r, found, outp, ub>>

(* line 69 *)
SplitRetBare ==
    /\ pc = "split_ret"
    /\ retv' = split_l
    /\ split_l' = NullVec
    /\ pc' = "split_done"
    /\ UNCHANGED <<inputs, parseL, ns_i, makeL, r, found, outp, env>>

SplitRet ==
    /\ pc = "split_ret"
    /\ IF ~split_l.null
       THEN /\ retv' = split_l
            /\ split_l' = NullVec
            /\ UNCHANGED <<heap, oom>>
       ELSE /\ \E ok \in BOOLEAN :
                 /\ heap' = IF ok THEN Alloc(heap, "vec") ELSE heap
                 /\ retv' = IF ok THEN VecPtr(NewBlk(heap), new0(1)) ELSE NullVec
                 /\ oom' = ~ok
            /\ UNCHANGED split_l
    /\ pc' = "split_done"
    /\ UNCHANGED <<inputs, parseL, ns_i, makeL, r, found, outp, rd, ub>>

----------------------------------------------------------------------------
(* strv_make_nulstr(l, ret, ret_size) *)

MakeCall ==
    /\ pc = "idle"
    /\ \E x \in Vectors, isnull \in BOOLEAN :
          make_l' = IF isnull THEN NullStrv ELSE Strv(x)
    /\ s' = NullBuf /\ l' = 0 /\ needle' = <<>> /\ chained' = FALSE
    /\ ret' = UnsetRet /\ ret_size' = UnsetSize
    /\ CallReset
    /\ pc' = "make_loop"

(* line 94: the bytes asked of GREEDY_REALLOC *)
NeedNoExtra(cur, z) == cur + z + 1
Need(cur, z) == cur + z + 2

(* line 98 *)
AdvanceNoNul(cur, z) == cur + z
Advance(cur, z) == cur + z + 1

Pad(k) == [j \in 1..k |-> Uninit]

(* The bytes b with data written at offset off *)
Poke(b, off, data) ==
    [j \in 1..Len(b) |-> IF j > off /\ j <= off + Len(data) THEN data[j - off] ELSE b[j]]

(* GREEDY_REALLOC(m, need) that allocates: at least need bytes, the old     *)
(* bytes kept, the new ones not written                                    *)
GreedyRealloc(buf, b, need, slack) ==
    BufPtr(IF buf.null THEN b ELSE buf.blk,
           buf.bytes \o Pad(need + slack - Len(buf.bytes)))

(* _cleanup_free_ of line 83, run when the function returns *)
MakeCleanup(h, buf) == IF buf.null THEN h ELSE FreeAll(h, {buf.blk})

(* lines 97-98 on the buffer buf of heap h *)
MakeCopy(buf, h, str) ==
    LET z == Len(str)
    IN  IF n + z + 1 <= Len(buf.bytes)
        THEN /\ m' = [buf EXCEPT !.bytes = Poke(@, n, str \o <<0>>)]
             /\ heap' = h
             /\ n' = Advance(n, z)
             /\ sv_i' = sv_i + 1
             /\ UNCHANGED <<pc, inputs, parseL, splitL, outs, outp, rd, oom, ub>>
        ELSE Fault

(* lines 89-99, one iteration of STRV_FOREACH *)
MakeLoop ==
    /\ pc = "make_loop"
    /\ IF ~make_l.null /\ sv_i < Len(make_l.items)
       THEN LET str  == make_l.items[sv_i + 1]
                need == Need(n, Len(str))
            IN  IF ~m.null /\ Len(m.bytes) >= need
                THEN MakeCopy(m, heap, str)
                ELSE \E ok \in BOOLEAN, slack \in 0..MaxSlack :
                        IF ok
                        THEN MakeCopy(GreedyRealloc(m, NewBlk(heap), need, slack),
                                      IF m.null THEN Alloc(heap, "buf") ELSE heap, str)
                        ELSE /\ oom' = TRUE
                             /\ r' = 0 - ENOMEM
                             /\ heap' = MakeCleanup(heap, m)
                             /\ pc' = "make_done"
                             /\ UNCHANGED <<inputs, parseL, splitL, makeL, retv, found,
                                            outp, rd, ub>>
       ELSE /\ pc' = "make_fin"
            /\ UNCHANGED <<inputs, parseL, splitL, makeL, outs, outp, env>>

(* line 103: new0(char, 2) *)
FallbackUninit == <<Uninit, Uninit>>
FallbackBuf == <<0, 0>>

(* line 110: m[n] = '\0' *)
NoFinalNul(b, cur) == b
FinalNul(b, cur) == Poke(b, cur, <<0>>)

(* lines 101-115 *)
MakeFin ==
    /\ pc = "make_fin"
    /\ IF m.null
       THEN \E ok \in BOOLEAN :
               IF ok
               THEN /\ heap' = Alloc(heap, "buf")
                    /\ ret' = [set |-> TRUE, m |-> BufPtr(NewBlk(heap), FallbackBuf)]
                    /\ ret_size' = [set |-> TRUE, size |-> 0]
                    /\ n' = 0
                    /\ r' = 0
                    /\ pc' = "make_done"
                    /\ UNCHANGED <<inputs, parseL, splitL, m, sv_i, retv, found, rd, oom, ub>>
               ELSE /\ oom' = TRUE
                    /\ r' = 0 - ENOMEM
                    /\ pc' = "make_done"
                    /\ UNCHANGED <<inputs, parseL, splitL, makeL, retv, found, outp,
                                   heap, rd, ub>>
       ELSE IF n < Len(m.bytes)
            THEN /\ ret' = [set |-> TRUE, m |-> [m EXCEPT !.bytes = FinalNul(@, n)]]
                 /\ ret_size' = [set |-> TRUE, size |-> n]
                 /\ m' = NullBuf
                 /\ r' = 0
                 /\ pc' = "make_done"
                 /\ UNCHANGED <<inputs, parseL, splitL, n, sv_i, retv, found, env>>
            ELSE Fault

----------------------------------------------------------------------------
(* nulstr_get(nulstr, needle) *)

GetCall ==
    /\ pc = "idle"
    /\ \E b \in Nulstrs, isnull \in BOOLEAN :
          s' = IF isnull THEN NullBuf ELSE BufPtr(0, b)
    /\ needle' \in Needles
    /\ l' = 0 /\ make_l' = NullStrv /\ chained' = FALSE
    /\ UNCHANGED outp
    /\ CallReset
    /\ pc' = "get_entry"

(* lines 119-120 *)
GetEntry ==
    /\ pc = "get_entry"
    /\ IF s.null
       THEN /\ found' = NullRef
            /\ pc' = "get_done"
       ELSE /\ pc' = "get_loop"
            /\ UNCHANGED found
    /\ UNCHANGED <<inputs, parseL, splitL, makeL, retv, r, outp, env>>

(* line 123: streq(i, needle) *)
PrefixEq(x, y) == Len(x) >= Len(y) /\ SubSeq(x, 1, Len(y)) = y
streq(x, y) == x = y

(* lines 122-124 with the comparison made before the end of the nulstr is  *)
(* tested                                                                  *)
GetLoopCmpFirst ==
    /\ pc = "get_loop"
    /\ IF ~ReadOK(s, ns_i)
       THEN Fault
       ELSE LET e == strchr0(s, ns_i)
            IN  IF ~ReadOK(s, e)
                THEN Fault
                ELSE /\ rd' = rd \cup (ns_i..e)
                     /\ IF streq(StrAt(s, ns_i, e), needle)
                        THEN /\ found' = Ref(ns_i)
                             /\ pc' = "get_done"
                             /\ UNCHANGED ns_i
                        ELSE IF e = ns_i
                        THEN /\ pc' = "get_ret"
                             /\ UNCHANGED <<found, ns_i>>
                        ELSE /\ ns_i' = e + 1
                             /\ UNCHANGED <<pc, found>>
                     /\ UNCHANGED <<inputs, parseL, split_l, makeL, retv, r, outp,
                                    heap, oom, ub>>

(* lines 122-124, one iteration of NULSTR_FOREACH *)
GetLoop ==
    /\ pc = "get_loop"
    /\ IF ~ReadOK(s, ns_i)
       THEN Fault
       ELSE IF NulstrDone(s, ns_i)
       THEN /\ pc' = "get_ret"
            /\ rd' = rd \cup {ns_i}
            /\ UNCHANGED <<inputs, parseL, splitL, makeL, outs, outp, heap, oom, ub>>
       ELSE LET e == strchr0(s, ns_i)
            IN  IF ~ReadOK(s, e)
                THEN Fault
                ELSE /\ rd' = rd \cup (ns_i..e)
                     /\ IF streq(StrAt(s, ns_i, e), needle)
                        THEN /\ found' = Ref(ns_i)
                             /\ pc' = "get_done"
                             /\ UNCHANGED ns_i
                        ELSE /\ ns_i' = e + 1
                             /\ UNCHANGED <<pc, found>>
                     /\ UNCHANGED <<inputs, parseL, split_l, makeL, retv, r, outp,
                                    heap, oom, ub>>

(* line 126 *)
GetRet ==
    /\ pc = "get_ret"
    /\ found' = NullRef
    /\ pc' = "get_done"
    /\ UNCHANGED <<inputs, parseL, splitL, makeL, retv, r, outp, env>>

----------------------------------------------------------------------------
(* The caller hands the buffer that strv_make_nulstr() returned to one of  *)
(* the readers, with the returned size (strv_parse_nulstr) or without      *)

MadeOK == pc = "make_done" /\ r = 0 /\ ret.set /\ ret_size.set

ParseCallMade ==
    /\ MadeOK
    /\ s' = ret.m /\ l' = ret_size.size
    /\ chained' = TRUE
    /\ UNCHANGED <<needle, make_l, outp>>
    /\ CallReset
    /\ pc' = "parse_entry"

SplitCallMade ==
    /\ MadeOK
    /\ s' = ret.m
    /\ chained' = TRUE
    /\ UNCHANGED <<l, needle, make_l, outp>>
    /\ CallReset
    /\ pc' = "split_loop"

GetCallMade ==
    /\ MadeOK
    /\ s' = ret.m
    /\ needle' \in Needles
    /\ chained' = TRUE
    /\ UNCHANGED <<l, make_l, outp>>
    /\ CallReset
    /\ pc' = "get_entry"

----------------------------------------------------------------------------

Init ==
    /\ pc = "idle"
    /\ s = NullBuf /\ l = 0 /\ needle = <<>> /\ make_l = NullStrv /\ chained = FALSE
    /\ c = 0 /\ i = 0 /\ p = 0 /\ v = NullVec
    /\ ns_i = 0 /\ split_l = NullVec
    /\ m = NullBuf /\ n = 0 /\ sv_i = 0
    /\ retv = NullVec /\ r = 0 /\ found = NullRef
    /\ ret = UnsetRet /\ ret_size = UnsetSize
    /\ heap = <<>> /\ rd = {} /\ oom = FALSE /\ ub = FALSE

Next ==
    \/ ParseCall \/ ParseEntry \/ ParseCount \/ ParseTail
    \/ ParseAlloc \/ ParseSplit \/ ParseRet
    \/ SplitCall \/ SplitLoop \/ SplitRet
    \/ MakeCall \/ MakeLoop \/ MakeFin
    \/ GetCall \/ GetEntry \/ GetLoop \/ GetRet
    \/ ParseCallMade \/ SplitCallMade \/ GetCallMade

Spec == Init /\ [][Next]_vars

----------------------------------------------------------------------------
(* What the callers are promised, stated without the code's loops *)

ParsePcs == {"parse_entry", "parse_count", "parse_tail", "parse_alloc",
             "parse_split", "parse_ret", "parse_done"}
SplitPcs == {"split_loop", "split_ret", "split_done"}
MakePcs  == {"make_loop", "make_fin", "make_done"}
GetPcs   == {"get_entry", "get_loop", "get_ret", "get_done"}

(* The strings of the caller's vector; an absent vector has none *)
Elems(x) == IF x.null THEN <<>> ELSE x.items

(* Positions (from 1) of the NUL bytes among the first len bytes of b *)
NulPos(b, len) == {k \in 1..len : b[k] = 0}

(* Position of the k-th NUL, 0 for k = 0 *)
KthNul(b, len, k) ==
    IF k = 0 THEN 0
    ELSE CHOOSE q \in NulPos(b, len) : Cardinality({x \in NulPos(b, len) : x <= q}) = k

SegmentCount(b, len) ==
    Cardinality(NulPos(b, len)) + (IF len > 0 /\ b[len] # 0 THEN 1 ELSE 0)

(* The k-th run of bytes: between the (k-1)-th and the k-th NUL, or after  *)
(* the last NUL up to the end                                              *)
Run(b, len, k) ==
    LET from == KthNul(b, len, k - 1) + 1
        to   == IF k <= Cardinality(NulPos(b, len)) THEN KthNul(b, len, k) - 1 ELSE len
    IN  SubSeq(b, from, to)

Runs(b, len) == [k \in 1..SegmentCount(b, len) |-> Run(b, len, k)]

(* The elements each followed by one NUL *)
RECURSIVE Flat(_)
Flat(x) == IF x = <<>> THEN <<>> ELSE Head(x) \o <<0>> \o Flat(Tail(x))

RECURSIVE SumLen(_)
SumLen(x) == IF x = <<>> THEN 0 ELSE Len(Head(x)) + 1 + SumLen(Tail(x))

(* The elements before the first empty one *)
RECURSIVE BeforeEmpty(_)
BeforeEmpty(x) ==
    IF x = <<>> \/ Head(x) = <<>> THEN <<>> ELSE <<Head(x)>> \o BeforeEmpty(Tail(x))

(* Offset of the first NUL at or after offset from; Len(b) when there is none *)
NulFrom(b, from) == Min({k \in from..Len(b) : k = Len(b) \/ b[k + 1] = 0})

(* Offsets of the segments of an unbounded nulstr before its first empty segment *)
RECURSIVE SegOffs(_, _)
SegOffs(b, from) ==
    IF from >= Len(b) \/ NulFrom(b, from) = from \/ NulFrom(b, from) = Len(b)
    THEN <<>>
    ELSE <<from>> \o SegOffs(b, NulFrom(b, from) + 1)

SegAt(b, from) == SubSeq(b, from + 1, NulFrom(b, from))

Segs(b) == [k \in 1..Len(SegOffs(b, 0)) |-> SegAt(b, SegOffs(b, 0)[k])]

(* C1: round trip: when strv_parse_nulstr() has parsed, without allocation *)
(* failure, the buffer and size that strv_make_nulstr(v) returned, its     *)
(* result is a vector with the elements of v, in order (none for absent v) *)
RoundTrip ==
    (pc = "parse_done" /\ chained /\ ~oom) =>
        /\ ~retv.null
        /\ Len(StrvOf(retv)) = Len(Elems(make_l))
        /\ StrvOf(retv) = Elems(make_l)

RoundTripWitness ==
    /\ pc = "parse_done" /\ chained /\ ~oom
    /\ Elems(make_l) = <<<<1>>, <<>>, <<2>>>>
    /\ l = 5

(* C2: segment count: strv_parse_nulstr() without allocation failure       *)
(* returns a vector (never NULL) whose number of elements is the number of *)
(* NUL bytes in s[0..l) plus one when l > 0 and s[l-1] is not NUL; the     *)
(* second pass has written exactly c elements, so assert(i == c) holds     *)
SegmentCountHolds ==
    /\ pc # "abort"
    /\ pc = "parse_ret" => i = c
    /\ (pc = "parse_done" /\ ~oom) =>
          /\ ~retv.null
          /\ strv_length(retv.items) = IF l = 0 THEN 0 ELSE SegmentCount(s.bytes, l)

SegmentCountWitness ==
    /\ pc = "parse_done" /\ ~oom /\ ~chained
    /\ l = 3 /\ s.bytes[3] # 0 /\ s.bytes[1] = 0
    /\ strv_length(retv.items) = 2

(* C3: contents: for l > 0 and no allocation failure the k-th element      *)
(* returned by strv_parse_nulstr() is the run of bytes between the         *)
(* (k-1)-th and the k-th NUL of s[0..l), empty runs included, a non-empty  *)
(* run after the last NUL being the last element; and the call reads no    *)
(* byte outside s[0..l)                                                    *)
ParseContents ==
    /\ (pc = "parse_done" /\ ~oom /\ l > 0) => StrvOf(retv) = Runs(s.bytes, l)
    /\ pc \in ParsePcs => \A k \in rd : 0 <= k /\ k < l
    /\ pc # "fault"

ParseContentsWitness ==
    /\ pc = "parse_done" /\ ~oom /\ ~chained
    /\ l = 4 /\ SubSeq(s.bytes, 1, 4) = <<1, 0, 0, 2>>
    /\ StrvOf(retv) = <<<<1>>, <<>>, <<2>>>>

(* C4 as stated: after a successful strv_make_nulstr() the two bytes at    *)
(* offsets *ret_size and *ret_size + 1 are allocated, written and NUL      *)
TwoNulsFromSize ==
    (pc = "make_done" /\ r = 0) =>
        /\ Len(ret.m.bytes) >= 2
        /\ ret_size.size + 2 <= Len(ret.m.bytes)
        /\ ret.m.bytes[ret_size.size + 1] = 0
        /\ ret.m.bytes[ret_size.size + 2] = 0

(* C4 amended: after a successful strv_make_nulstr() the buffer has at     *)
(* least 2 bytes and the byte at offset *ret_size is allocated, written    *)
(* and NUL; the second NUL of the pair is at offset 1 when *ret_size is 0  *)
(* (absent or empty vector) and at offset *ret_size - 1 otherwise, the     *)
(* byte at offset *ret_size + 1 then being outside the bytes asked for and *)
(* never written                                                           *)
TrailingDoubleNul ==
    (pc = "make_done" /\ r = 0) =>
        /\ ret.set /\ ret_size.set /\ ~ret.m.null
        /\ Len(ret.m.bytes) >= 2
        /\ ret_size.size + 1 <= Len(ret.m.bytes)
        /\ ret.m.bytes[ret_size.size + 1] = 0
        /\ IF ret_size.size = 0
           THEN ret.m.bytes[2] = 0
           ELSE /\ ret.m.bytes[ret_size.size] = 0
                /\ \/ ret_size.size + 2 > Len(ret.m.bytes)
                   \/ ret.m.bytes[ret_size.size + 2] = Uninit

TrailingDoubleNulWitness ==
    /\ pc = "make_done" /\ r = 0
    /\ ret_size.size > 0
    /\ Len(ret.m.bytes) = ret_size.size + 1

(* C5: size and layout: a successful strv_make_nulstr() reports the sum of *)
(* (length + 1) over the elements, the bytes before that size are the      *)
(* elements in order each followed by one NUL, and after every iteration   *)
(* the buffer holds at least n + 1 bytes, so the extra NUL at offset n is  *)
(* written inside the allocation                                           *)
SizeAndLayout ==
    /\ (pc = "make_done" /\ r = 0) =>
          /\ ret_size.size = SumLen(Elems(make_l))
          /\ ret_size.size + 1 <= Len(ret.m.bytes)
          /\ SubSeq(ret.m.bytes, 1, ret_size.size) = Flat(Elems(make_l))
    /\ (pc \in {"make_loop", "make_fin"} /\ ~m.null) => Len(m.bytes) >= n + 1
    /\ (pc \in {"make_loop", "make_fin"} /\ m.null) => n = 0
    /\ pc # "fault"

SizeAndLayoutWitness ==
    /\ pc = "make_done" /\ r = 0
    /\ Len(Elems(make_l)) = 2
    /\ make_l.items[1] # <<>> /\ make_l.items[2] # <<>>
    /\ ret_size.size = Len(make_l.items[1]) + Len(make_l.items[2]) + 2

(* C6: strv_split_nulstr() without allocation failure returns the         *)
(* non-empty segments before the first empty segment, in order, whatever   *)
(* follows that empty segment; with no such segment it returns a new       *)
(* vector of 0 elements, not NULL                                          *)
SplitStopsAtEmpty ==
    (pc = "split_done" /\ ~oom) =>
        /\ ~retv.null
        /\ retv.blk \in DOMAIN heap
        /\ StrvOf(retv) = IF s.null THEN <<>> ELSE Segs(s.bytes)

SplitStopsAtEmptyWitness ==
    /\ pc = "split_done" /\ ~oom /\ ~chained
    /\ s.bytes = <<1, 0, 0, 2, 0, 0>>
    /\ StrvOf(retv) = <<<<1>>>>

(* C7: nulstr_get() returns the offset in the nulstr itself of the first   *)
(* segment, among those before the first empty segment, that equals the    *)
(* needle, NULL when there is none, and NULL without reading when the      *)
(* nulstr is NULL; it allocates nothing and leaves the nulstr as it was    *)
GetFindsFirst ==
    /\ [](pc = "get_done" =>
            IF s.null
            THEN found.null /\ rd = {}
            ELSE LET hits == {k \in 1..Len(SegOffs(s.bytes, 0)) :
                                 SegAt(s.bytes, SegOffs(s.bytes, 0)[k]) = needle}
                 IN  IF hits = {}
                     THEN found.null
                     ELSE /\ ~found.null
                          /\ found.off = SegOffs(s.bytes, 0)[Min(hits)])
    /\ [](pc \in GetPcs => heap = <<>>)
    /\ [][(pc \in {"get_entry", "get_loop", "get_ret"}) => (s' = s)]_vars

GetFindsFirstWitness ==
    /\ pc = "get_done" /\ ~chained
    /\ ~found.null /\ found.off = 3
    /\ SubSeq(s.bytes, 1, 5) = <<1, 2, 0, 1, 0>>
    /\ needle = <<1>>

(* C8: when an allocation fails, strv_parse_nulstr() and                   *)
(* strv_split_nulstr() return NULL and strv_make_nulstr() returns -ENOMEM  *)
(* without writing *ret or *ret_size; every block the call had allocated   *)
(* has been freed exactly once; no block is ever freed twice               *)
NoLeakOnFailure ==
    /\ \A b \in DOMAIN heap : heap[b].frees <= 1
    /\ (pc \in {"parse_done", "split_done"} /\ oom) =>
          /\ retv.null
          /\ \A b \in DOMAIN heap : heap[b].frees = 1
    /\ (pc = "make_done" /\ oom) =>
          /\ r = 0 - ENOMEM
          /\ ~ret.set /\ ~ret_size.set
          /\ \A b \in DOMAIN heap : heap[b].frees = 1
    /\ (pc \in {"parse_done", "split_done"} /\ ~retv.null) => ~oom
    /\ (pc = "make_done" /\ r = 0) => ~oom

NoLeakOnFailureWitness ==
    /\ pc = "parse_done" /\ oom
    /\ Len(heap) = 3
    /\ \A b \in DOMAIN heap : heap[b].frees = 1

(* C9: strv_split_nulstr() on the buffer of a successful                   *)
(* strv_make_nulstr(v), without the size, returns the elements of v before *)
(* its first empty element and reads no byte past offset *ret_size         *)
SplitOfMade ==
    /\ (pc = "split_done" /\ chained /\ ~oom) =>
          /\ ~retv.null
          /\ StrvOf(retv) = BeforeEmpty(Elems(make_l))
    /\ (pc \in SplitPcs /\ chained) => \A k \in rd : k <= ret_size.size
    /\ chained => pc # "fault"

SplitOfMadeWitness ==
    /\ pc = "split_done" /\ chained /\ ~oom
    /\ Len(Elems(make_l)) = 2
    /\ make_l.items[1] = <<>> /\ make_l.items[2] # <<>>
    /\ StrvOf(retv) = <<>>
    /\ rd = {0}

(* C10: nulstr_get() of a nulstr that is not NULL never finds the empty    *)
(* needle                                                                  *)
EmptyNeedleNotFound ==
    (pc = "get_done" /\ ~s.null /\ needle = <<>>) => found.null

EmptyNeedleNotFoundWitness ==
    /\ pc = "get_done" /\ chained /\ needle = <<>>
    /\ Len(Elems(make_l)) = 2
    /\ make_l.items[1] # <<>> /\ make_l.items[2] = <<>>
    /\ found.null

====
